---- MODULE Spec2Model ----
(***************************************************************************)
(* Word-language-model training script (src/main.py): the batchifier, the  *)
(* window sampler, the evaluation loop, the training loop with its         *)
(* periodic log and manual SGD step, and the epoch controller with         *)
(* checkpointing, learning-rate annealing and KeyboardInterrupt handling.  *)
(*                                                                         *)
(* Floats are abstracted to the values that decide the control flow:       *)
(* losses are small naturals (only their order and their truthiness are    *)
(* used by the script), the learning rate is an exact rational n/d, and    *)
(* math.exp is kept symbolic.                                              *)
(***************************************************************************)
EXTENDS Integers, Sequences, FiniteSets, TLC

\* ------------------------------------------------------------------ bounds
MaxTrainLen == 5
MaxBsz == 2
MaxBptt == 3
MaxLogInterval == 2
MaxEpochs == 2
MaxLoss == 2
MaxStreamLen == 8

\* ------------------------------------------------------- program constants
DefaultLr == 20
AnnealFactor == 4
DefaultLambda == 0

\* Cross-entropy values the opaque model may report for one window.
CEVals == {1, 2}
\* Validation / test losses evaluate() may return; 0 is a cross-entropy of
\* exactly 0.0 (e.g. a one-word vocabulary).
Losses == 0 .. MaxLoss
Vocab == {"a", "b"}
ParamIds == 1 .. 2

VARIABLES
  \* ---- configuration (args)
  ntrain, batch_size, bptt, log_interval, epochs,
  \* ---- the values the external model (model.py) produces in this run
  ce_vals, loss_vals,
  \* ---- epoch controller and training loop
  pc, epoch, lr, best_val_loss, val_loss, model, ckpt,
  train_metrics, eval_metrics, test_metrics,
  total_loss, batch, i, cross_entropy_val, pidx, progress,
  exited_early, train_csv,
  \* ---- batchify / get_batch / evaluate on one stream
  dpc, stream, bsz, data_source, ei, data, targets, eval_total, eval_ces,
  eval_result,
  \* ---- one optimizer step on a parameter list
  opc, center_loss_factor, params, oidx

cfgVars == <<ntrain, batch_size, log_interval, epochs, ce_vals, loss_vals>>
ctlVars == <<pc, epoch, lr, best_val_loss, val_loss, model, ckpt,
             train_metrics, eval_metrics, test_metrics,
             total_loss, batch, i, cross_entropy_val, pidx, progress,
             exited_early, train_csv>>
dataVars == <<dpc, stream, bsz, data_source, ei, data, targets, eval_total,
              eval_ces, eval_result>>
optVars == <<opc, center_loss_factor, params, oidx>>
vars == <<cfgVars, bptt, ctlVars, dataVars, optVars>>

\* ------------------------------------------------------------- arithmetic
Min(a, b) == IF a <= b THEN a ELSE b

\* The learning rate as an exact rational.
Rat(n, d) == [n |-> n, d |-> d]
RatDiv(r, k) == Rat(r.n, r.d * k)
RatLeq(a, b) == a.n * b.d <= b.n * a.d
RatEq(a, b) == a.n * b.d = b.n * a.d

\* math.exp, kept symbolic (injective).
exp(x) == [exp |-> x]

RECURSIVE SumSeq(_)
SumSeq(s) == IF s = <<>> THEN 0 ELSE s[1] + SumSeq(Tail(s))

\* ---------------------------------------------------------------- batchify
\* nbatch = data.size(0) // bsz
NBatch(n, b) == n \div b

\* data.narrow(0, 0, nbatch * bsz)
narrow(d, len) == SubSeq(d, 1, len)

\* data.view(bsz, -1): bsz rows of consecutive elements
view(d, rows) ==
  LET w == Len(d) \div rows
  IN  [r \in 1 .. rows |-> [c \in 1 .. w |-> d[(r - 1) * w + c]]]

\* .t(): transpose of a rows x cols grid
t(g, rows, cols) == [r \in 1 .. cols |-> [c \in 1 .. rows |-> g[c][r]]]

batchifyNoTranspose(d, b) ==
  LET nbatch == NBatch(Len(d), b)
      trimmed == narrow(d, nbatch * b)
  IN  [r \in 1 .. nbatch |-> [c \in 1 .. b |-> trimmed[(r - 1) * b + c]]]

batchify(d, b) ==
  LET nbatch == NBatch(Len(d), b)
      trimmed == narrow(d, nbatch * b)
  IN  t(view(trimmed, b), b, nbatch)

\* --------------------------------------------------------------- get_batch
\* Python slice s[a:b] (0-based, end exclusive, clamped to the sequence).
PySlice(s, a, b) ==
  LET lo == Min(a, Len(s))
      hi == Min(b, Len(s))
  IN  IF hi <= lo THEN <<>> ELSE SubSeq(s, lo + 1, hi)

RECURSIVE Flatten(_)
\* .view(-1) of a list of rows: row-major concatenation
Flatten(rows) == IF rows = <<>> THEN <<>> ELSE rows[1] \o Flatten(Tail(rows))

seq_lenOffByOne(source, off) == Min(bptt, Len(source) - off)

seq_len(source, off) == Min(bptt, Len(source) - 1 - off)

get_batch(source, off) ==
  LET n == seq_len(source, off)
  IN  [data |-> PySlice(source, off, off + n),
       target |-> Flatten(PySlice(source, off + 1, off + 1 + n))]

\* range(0, stop, step): whether offset off is still produced
RangeHasNextInclusive(off, stop) == off < stop + 1

RangeHasNext(off, stop) == off < stop

\* ------------------------------------------------------- training windows
\* train_data.size(0) for train_data = batchify(corpus.train, args.batch_size)
TrainRows == NBatch(ntrain, batch_size)

\* Where the window loop goes for offset off: into the body, or out of train().
LoopPc(off) == IF RangeHasNext(off, TrainRows - 1) THEN "w_forward" ELSE "evaluate"

\* Python truthiness of best_val_loss (None is <<>>, a float f is <<f>>).
Falsy(b) == b = <<>> \/ b[1] = 0

\* `not best_val_loss or val_loss < best_val_loss`
SaveCondition == Falsy(best_val_loss) \/ val_loss < best_val_loss[1]

EmptyTrainMetrics ==
  [train_loss |-> <<>>, center_loss |-> <<>>, cross_entropy |-> <<>>,
   perplexity |-> <<>>]

EmptyEvalMetrics == [cross_entropy |-> <<>>, perplexity |-> <<>>]

NoCheckpoint == [state |-> "absent", model |-> [p \in ParamIds |-> 0]]

\* Program positions inside the try block of the epoch loop.
TryPcs ==
  {"epoch_loop", "train_init", "w_forward", "w_rec_train_loss",
   "w_rec_center_loss", "w_rec_cross_entropy", "w_rec_perplexity",
   "w_update", "w_accum", "w_log", "evaluate", "decide", "save_open",
   "save_dump", "set_best", "anneal", "flush"}

DataInitValues ==
  /\ dpc = "idle" /\ stream = <<>> /\ bsz = 1 /\ data_source = <<>>
  /\ ei = 0 /\ data = <<>> /\ targets = <<>> /\ eval_total = 0
  /\ eval_ces = <<>> /\ eval_result = <<>>

OptInitValues ==
  /\ opc = "idle" /\ center_loss_factor = DefaultLambda /\ params = <<>>
  /\ oidx = 0

CtlInitValues ==
  /\ pc = "epoch_loop" /\ epoch = 0
  /\ lr = Rat(DefaultLr, 1)
  /\ best_val_loss = <<>> /\ val_loss = 0
  /\ model = [p \in ParamIds |-> 0]
  /\ ckpt = NoCheckpoint
  /\ train_metrics = EmptyTrainMetrics
  /\ eval_metrics = EmptyEvalMetrics
  /\ test_metrics = EmptyEvalMetrics
  /\ total_loss = 0 /\ batch = 0 /\ i = 0 /\ cross_entropy_val = 0
  /\ pidx = 1 /\ progress = <<>> /\ exited_early = FALSE /\ train_csv = 0

\* The command line: a corpus of at least two rows per stream.
ConfigInit ==
  /\ batch_size \in 1 .. MaxBsz
  /\ ntrain \in 2 * batch_size .. MaxTrainLen
  /\ bptt \in 1 .. MaxBptt
  /\ epochs = MaxEpochs

\* The epoch controller: every validation loss, one training loss value.
Init ==
  /\ ConfigInit
  /\ log_interval = 1
  /\ ce_vals = {1} /\ loss_vals = Losses
  /\ CtlInitValues /\ DataInitValues /\ OptInitValues

\* The training loop: every per-window loss, one validation loss value.
InitTrain ==
  /\ ConfigInit
  /\ log_interval \in 1 .. MaxLogInterval
  /\ ce_vals = CEVals /\ loss_vals = {1}
  /\ CtlInitValues /\ DataInitValues /\ OptInitValues

\* for epoch in range(1, args.epochs+1)
EpochLoop ==
  /\ pc = "epoch_loop"
  /\ IF epoch < epochs
       THEN epoch' = epoch + 1 /\ pc' = "train_init"
       ELSE epoch' = epoch /\ pc' = "load"
  /\ UNCHANGED <<lr, best_val_loss, val_loss, model, ckpt, train_metrics,
                 eval_metrics, test_metrics, total_loss, batch, i,
                 cross_entropy_val, pidx, progress, exited_early, train_csv>>
  /\ UNCHANGED <<cfgVars, bptt, dataVars, optVars>>

\* train(): total_loss = 0 and the first step of the window loop
TrainInit ==
  /\ pc = "train_init"
  /\ total_loss' = 0 /\ batch' = 0 /\ i' = 0
  /\ pc' = LoopPc(0)
  /\ UNCHANGED <<epoch, lr, best_val_loss, val_loss, model, ckpt,
                 train_metrics, eval_metrics, test_metrics,
                 cross_entropy_val, pidx, progress, exited_early, train_csv>>
  /\ UNCHANGED <<cfgVars, bptt, dataVars, optVars>>

\* get_batch, repackage_hidden, zero_grad, forward, loss values, backward
WForward ==
  /\ pc = "w_forward"
  /\ \E ce \in ce_vals : cross_entropy_val' = ce
  /\ pc' = "w_rec_train_loss"
  /\ UNCHANGED <<epoch, lr, best_val_loss, val_loss, model, ckpt,
                 train_metrics, eval_metrics, test_metrics, total_loss,
                 batch, i, pidx, progress, exited_early, train_csv>>
  /\ UNCHANGED <<cfgVars, bptt, dataVars, optVars>>

\* train_loss: cross entropy alone unless center_loss_factor > 0; the
\* center loss of the stand-in model is 0.
TrainLossVal ==
  IF center_loss_factor > 0
    THEN cross_entropy_val + center_loss_factor * 0
    ELSE cross_entropy_val

WRecord(at, series, value, next) ==
  /\ pc = at
  /\ train_metrics' = [train_metrics EXCEPT ![series] = Append(@, value)]
  /\ pc' = next
  /\ UNCHANGED <<epoch, lr, best_val_loss, val_loss, model, ckpt,
                 eval_metrics, test_metrics, total_loss, batch, i,
                 cross_entropy_val, pidx, progress, exited_early, train_csv>>
  /\ UNCHANGED <<cfgVars, bptt, dataVars, optVars>>

WRecTrainLoss ==
  WRecord("w_rec_train_loss", "train_loss", TrainLossVal, "w_rec_center_loss")

WRecCenterLoss ==
  WRecord("w_rec_center_loss", "center_loss", 0, "w_rec_cross_entropy")

WRecCrossEntropy ==
  WRecord("w_rec_cross_entropy", "cross_entropy", cross_entropy_val,
          "w_rec_perplexity")

WRecPerplexity ==
  WRecord("w_rec_perplexity", "perplexity", exp(cross_entropy_val),
          "w_update")

\* clip_grad_norm, then p.data.add_(-lr, p.grad.data) for one parameter of
\* the loop; model[p] counts the updates applied to parameter p.
WUpdate ==
  /\ pc = "w_update"
  /\ model' = [model EXCEPT ![pidx] = @ + 1]
  /\ IF pidx + 1 \in ParamIds
       THEN pidx' = pidx + 1 /\ pc' = "w_update"
       ELSE pidx' = 1 /\ pc' = "w_accum"
  /\ UNCHANGED <<epoch, lr, best_val_loss, val_loss, ckpt, train_metrics,
                 eval_metrics, test_metrics, total_loss, batch, i,
                 cross_entropy_val, progress, exited_early, train_csv>>
  /\ UNCHANGED <<cfgVars, bptt, dataVars, optVars>>

\* total_loss += cross_entropy_val
WAccum ==
  /\ pc = "w_accum"
  /\ total_loss' = total_loss + cross_entropy_val
  /\ pc' = "w_log"
  /\ UNCHANGED <<epoch, lr, best_val_loss, val_loss, model, ckpt,
                 train_metrics, eval_metrics, test_metrics, batch, i,
                 cross_entropy_val, pidx, progress, exited_early, train_csv>>
  /\ UNCHANGED <<cfgVars, bptt, dataVars, optVars>>

\* batch % args.log_interval == 0 and batch > 0
LogCondition == batch % log_interval = 0 /\ batch > 0

\* The periodic progress line (cur_loss = total_loss / log_interval, kept as
\* numerator and divisor), the reset, and the step to the next window.
WLog ==
  /\ pc = "w_log"
  /\ IF LogCondition
       THEN /\ progress' = <<epoch, batch, total_loss, log_interval>>
            /\ total_loss' = 0
       ELSE UNCHANGED <<progress, total_loss>>
  /\ batch' = batch + 1
  /\ i' = i + bptt
  /\ pc' = LoopPc(i + bptt)
  /\ UNCHANGED <<epoch, lr, best_val_loss, val_loss, model, ckpt,
                 train_metrics, eval_metrics, test_metrics,
                 cross_entropy_val, pidx, exited_early, train_csv>>
  /\ UNCHANGED <<cfgVars, bptt, dataVars, optVars>>

\* ------------------------------------------------------- epoch controller
\* val_loss = evaluate(val_data) and the eval_metrics appends
Evaluate ==
  /\ pc = "evaluate"
  /\ \E v \in loss_vals :
       /\ val_loss' = v
       /\ eval_metrics' =
            [cross_entropy |-> Append(eval_metrics.cross_entropy, v),
             perplexity |-> Append(eval_metrics.perplexity, exp(v))]
  /\ pc' = "decide"
  /\ UNCHANGED <<epoch, lr, best_val_loss, model, ckpt, train_metrics,
                 test_metrics, total_loss, batch, i, cross_entropy_val,
                 pidx, progress, exited_early, train_csv>>
  /\ UNCHANGED <<cfgVars, bptt, dataVars, optVars>>

\* if not best_val_loss or val_loss < best_val_loss
Decide ==
  /\ pc = "decide"
  /\ pc' = IF SaveCondition THEN "save_open" ELSE "anneal"
  /\ UNCHANGED <<epoch, lr, best_val_loss, val_loss, model, ckpt,
                 train_metrics, eval_metrics, test_metrics, total_loss,
                 batch, i, cross_entropy_val, pidx, progress, exited_early,
                 train_csv>>
  /\ UNCHANGED <<cfgVars, bptt, dataVars, optVars>>

\* open(model_path, 'wb') creates or truncates the checkpoint file
SaveOpen ==
  /\ pc = "save_open"
  /\ ckpt' = [ckpt EXCEPT !.state = "partial"]
  /\ pc' = "save_dump"
  /\ UNCHANGED <<epoch, lr, best_val_loss, val_loss, model, train_metrics,
                 eval_metrics, test_metrics, total_loss, batch, i,
                 cross_entropy_val, pidx, progress, exited_early, train_csv>>
  /\ UNCHANGED <<cfgVars, bptt, dataVars, optVars>>

\* torch.save(model, f)
SaveDump ==
  /\ pc = "save_dump"
  /\ ckpt' = [state |-> "complete", model |-> model]
  /\ pc' = "set_best"
  /\ UNCHANGED <<epoch, lr, best_val_loss, val_loss, model, train_metrics,
                 eval_metrics, test_metrics, total_loss, batch, i,
                 cross_entropy_val, pidx, progress, exited_early, train_csv>>
  /\ UNCHANGED <<cfgVars, bptt, dataVars, optVars>>

\* best_val_loss = val_loss
SetBest ==
  /\ pc = "set_best"
  /\ best_val_loss' = <<val_loss>>
  /\ pc' = "flush"
  /\ UNCHANGED <<epoch, lr, val_loss, model, ckpt, train_metrics,
                 eval_metrics, test_metrics, total_loss, batch, i,
                 cross_entropy_val, pidx, progress, exited_early, train_csv>>
  /\ UNCHANGED <<cfgVars, bptt, dataVars, optVars>>

\* lr /= 4.0
Annealed(r) == RatDiv(r, AnnealFactor)

Anneal ==
  /\ pc = "anneal"
  /\ lr' = Annealed(lr)
  /\ pc' = "flush"
  /\ UNCHANGED <<epoch, best_val_loss, val_loss, model, ckpt, train_metrics,
                 eval_metrics, test_metrics, total_loss, batch, i,
                 cross_entropy_val, pidx, progress, exited_early, train_csv>>
  /\ UNCHANGED <<cfgVars, bptt, dataVars, optVars>>

\* pd.DataFrame(train_metrics).to_csv(...): the number of rows written
Flush ==
  /\ pc = "flush"
  /\ train_csv' = Len(train_metrics.train_loss)
  /\ pc' = "epoch_loop"
  /\ UNCHANGED <<epoch, lr, best_val_loss, val_loss, model, ckpt,
                 train_metrics, eval_metrics, test_metrics, total_loss,
                 batch, i, cross_entropy_val, pidx, progress, exited_early>>
  /\ UNCHANGED <<cfgVars, bptt, dataVars, optVars>>

\* A flag-only handler: the interruption is noted and the loop carries on.
InterruptDeferred ==
  /\ pc \in TryPcs
  /\ ~exited_early
  /\ exited_early' = TRUE
  /\ UNCHANGED <<pc, epoch, lr, best_val_loss, val_loss, model, ckpt,
                 train_metrics, eval_metrics, test_metrics, total_loss,
                 batch, i, cross_entropy_val, pidx, progress, train_csv>>
  /\ UNCHANGED <<cfgVars, bptt, dataVars, optVars>>

\* KeyboardInterrupt raised at any position inside the try block:
\* control goes to the except clause ('Exiting from training early').
Interrupt ==
  /\ pc \in TryPcs
  /\ exited_early' = TRUE
  /\ pc' = "load"
  /\ UNCHANGED <<epoch, lr, best_val_loss, val_loss, model, ckpt,
                 train_metrics, eval_metrics, test_metrics, total_loss,
                 batch, i, cross_entropy_val, pidx, progress, train_csv>>
  /\ UNCHANGED <<cfgVars, bptt, dataVars, optVars>>

\* with open(model_path, 'rb') as f: model = torch.load(f)
\* A missing file raises FileNotFoundError, a truncated one fails to unpickle.
Load ==
  /\ pc = "load"
  /\ IF ckpt.state = "complete"
       THEN model' = ckpt.model /\ pc' = "test"
       ELSE model' = model /\ pc' = "error"
  /\ UNCHANGED <<epoch, lr, best_val_loss, val_loss, ckpt, train_metrics,
                 eval_metrics, test_metrics, total_loss, batch, i,
                 cross_entropy_val, pidx, progress, exited_early, train_csv>>
  /\ UNCHANGED <<cfgVars, bptt, dataVars, optVars>>

\* test_loss = evaluate(test_data), test_metrics appends and csv write
Test ==
  /\ pc = "test"
  /\ \E v \in loss_vals :
       test_metrics' = [cross_entropy |-> <<v>>, perplexity |-> <<exp(v)>>]
  /\ pc' = "done"
  /\ UNCHANGED <<epoch, lr, best_val_loss, val_loss, model, ckpt,
                 train_metrics, eval_metrics, total_loss, batch, i,
                 cross_entropy_val, pidx, progress, exited_early, train_csv>>
  /\ UNCHANGED <<cfgVars, bptt, dataVars, optVars>>

Next ==
  \/ EpochLoop \/ TrainInit \/ WForward
  \/ WRecTrainLoss \/ WRecCenterLoss \/ WRecCrossEntropy \/ WRecPerplexity
  \/ WUpdate \/ WAccum \/ WLog
  \/ Evaluate \/ Decide \/ SaveOpen \/ SaveDump \/ SetBest \/ Anneal \/ Flush
  \/ Interrupt \/ Load \/ Test

Spec == Init /\ [][Next]_vars

NextTrain ==
  \/ EpochLoop \/ TrainInit \/ WForward
  \/ WRecTrainLoss \/ WRecCenterLoss \/ WRecCrossEntropy \/ WRecPerplexity
  \/ WUpdate \/ WAccum \/ WLog
  \/ Evaluate \/ Decide \/ SaveOpen \/ SaveDump \/ SetBest \/ Anneal \/ Flush
  \/ Load \/ Test

SpecTrain == InitTrain /\ [][NextTrain]_vars

\* ------------------------------------------- batchify, get_batch, evaluate
Streams(lo, hi) == UNION {[1 .. n -> Vocab] : n \in lo .. hi}

\* One stream pushed through batchify and one evaluate() pass.
InitData ==
  /\ bsz \in 1 .. MaxBsz
  /\ stream \in Streams(bsz, MaxStreamLen)
  /\ bptt \in 1 .. MaxBptt
  /\ ce_vals = CEVals /\ loss_vals = {1}
  /\ ntrain = 2 /\ batch_size = 1 /\ log_interval = 1 /\ epochs = 1
  /\ dpc = "batchify" /\ data_source = <<>>
  /\ ei = 0 /\ data = <<>> /\ targets = <<>> /\ eval_total = 0
  /\ eval_ces = <<>> /\ eval_result = <<>>
  /\ CtlInitValues /\ OptInitValues

\* Where the evaluate loop goes for offset off.
EvalLoopPc(off) ==
  IF RangeHasNext(off, Len(data_source) - 1) THEN "get_batch" ELSE "return"

\* val_data = batchify(corpus.valid, eval_batch_size)
Batchify ==
  /\ dpc = "batchify"
  /\ data_source' = batchify(stream, bsz)
  /\ dpc' = "eval_init"
  /\ UNCHANGED <<stream, bsz, ei, data, targets, eval_total, eval_ces,
                 eval_result>>
  /\ UNCHANGED <<cfgVars, bptt, ctlVars, optVars>>

\* evaluate(): total_loss = 0 and the first step of the window loop
EvalInit ==
  /\ dpc = "eval_init"
  /\ eval_total' = 0 /\ ei' = 0
  /\ dpc' = EvalLoopPc(0)
  /\ UNCHANGED <<stream, bsz, data_source, data, targets, eval_ces,
                 eval_result>>
  /\ UNCHANGED <<cfgVars, bptt, ctlVars, optVars>>

\* data, targets = get_batch(data_source, i, evaluation=True)
EvalGetBatch ==
  /\ dpc = "get_batch"
  /\ data' = get_batch(data_source, ei).data
  /\ targets' = get_batch(data_source, ei).target
  /\ dpc' = "forward"
  /\ UNCHANGED <<stream, bsz, data_source, ei, eval_total, eval_ces,
                 eval_result>>
  /\ UNCHANGED <<cfgVars, bptt, ctlVars, optVars>>

\* total_loss += len(data) * criterion(output_flat, targets).data
EvalForward ==
  /\ dpc = "forward"
  /\ \E ce \in ce_vals :
       /\ eval_total' = eval_total + Len(data) * ce
       /\ eval_ces' = Append(eval_ces, ce)
  /\ ei' = ei + bptt
  /\ dpc' = EvalLoopPc(ei + bptt)
  /\ UNCHANGED <<stream, bsz, data_source, data, targets, eval_result>>
  /\ UNCHANGED <<cfgVars, bptt, ctlVars, optVars>>

\* return total_loss[0] / len(data_source), kept as <<numerator, divisor>>;
\* with no window run total_loss is still the int 0 and indexing it raises.
EvalReturn ==
  /\ dpc = "return"
  /\ IF Len(data_source) - 1 <= 0
       THEN dpc' = "error" /\ eval_result' = eval_result
       ELSE dpc' = "returned"
            /\ eval_result' = <<eval_total, Len(data_source)>>
  /\ UNCHANGED <<stream, bsz, data_source, ei, data, targets, eval_total,
                 eval_ces>>
  /\ UNCHANGED <<cfgVars, bptt, ctlVars, optVars>>

NextData ==
  \/ Batchify \/ EvalInit \/ EvalGetBatch \/ EvalForward \/ EvalReturn

SpecData == InitData /\ [][NextData]_vars

\* ----------------------------------------------------- the optimizer step
Lambdas == {DefaultLambda, 1}
GradVals == {1, 2}
InitialData == Rat(0, 1)

\* a - r * g on exact rationals
RatSubScaled(a, r, g) == Rat(a.n * r.d - r.n * g * a.d, a.d * r.d)

\* The kinds of parameter a model may expose: trainable or frozen, used by
\* the cross-entropy or only by the center loss.
ParamKinds ==
  [requires_grad : BOOLEAN, loss : {"ce", "center"}, grad : {<<>>},
   data : {InitialData}]

\* Whether the backward pass of train_loss reaches parameter p:
\* train_loss contains the center loss only if center_loss_factor > 0.
Reached(p) ==
  p.requires_grad /\ (p.loss = "ce" \/ center_loss_factor > 0)

InitOpt ==
  /\ params \in [ParamIds -> ParamKinds]
  /\ center_loss_factor \in Lambdas
  /\ opc = "backward" /\ oidx = 1
  /\ ntrain = 2 /\ batch_size = 1 /\ bptt = 1 /\ log_interval = 1
  /\ epochs = 1 /\ ce_vals = {1} /\ loss_vals = {1}
  /\ CtlInitValues /\ DataInitValues

\* train_loss.backward() and clip_grad_norm: p.grad is set (to its clipped
\* value) for every parameter the loss reaches and stays None for the rest.
OptBackward ==
  /\ opc = "backward"
  /\ \E gs \in [ParamIds -> GradVals] :
       params' = [k \in ParamIds |->
                    IF Reached(params[k])
                      THEN [params[k] EXCEPT !.grad = <<gs[k]>>]
                      ELSE params[k]]
  /\ opc' = "update" /\ oidx' = 1
  /\ UNCHANGED center_loss_factor
  /\ UNCHANGED <<cfgVars, bptt, ctlVars, dataVars>>

\* One iteration of `for name,p in model.named_parameters()`:
\* if p.requires_grad: p.data.add_(-lr, p.grad.data); p.grad.data on a
\* None gradient raises AttributeError.
OptUpdate ==
  /\ opc = "update"
  /\ LET p == params[oidx]
         nextpc == IF oidx + 1 \in ParamIds THEN "update" ELSE "done"
     IN  IF ~p.requires_grad
           THEN params' = params /\ opc' = nextpc /\ oidx' = oidx + 1
           ELSE IF p.grad = <<>>
             THEN params' = params /\ opc' = "error" /\ oidx' = oidx
             ELSE /\ params' = [params EXCEPT ![oidx].data =
                                  RatSubScaled(@, lr, p.grad[1])]
                  /\ opc' = nextpc /\ oidx' = oidx + 1
  /\ UNCHANGED center_loss_factor
  /\ UNCHANGED <<cfgVars, bptt, ctlVars, dataVars>>

NextOpt == OptBackward \/ OptUpdate

SpecOpt == InitOpt /\ [][NextOpt]_vars

\* ------------------------------------------------------------------------
\* Properties of the epoch controller and the training loop
\* ------------------------------------------------------------------------
AllIndices(s) == 1 .. Len(s)

\* The last entry of s is strictly below every earlier one (or is the first).
StrictlyBest(s) == \A k \in 1 .. Len(s) - 1 : s[Len(s)] < s[k]

\* The first epoch whose validation loss is the minimum of the series.
FirstArgMin(s) ==
  CHOOSE k \in AllIndices(s) :
    /\ \A j \in AllIndices(s) : s[k] <= s[j]
    /\ \A j \in 1 .. k - 1 : s[j] > s[k]

\* Windows per epoch in closed form: ceil((rows - 1) / bptt).
NumWindows(rows, len) == (rows - 1 + len - 1) \div len

\* The model after k complete epochs: every parameter updated once per window.
ModelAfter(k) == [p \in ParamIds |-> k * NumWindows(TrainRows, bptt)]

SeriesLens == {Len(train_metrics[f]) : f \in DOMAIN train_metrics}

LastN(s, n) == SubSeq(s, Len(s) - n + 1, Len(s))

\* C1 (as stated): the checkpoint written at the end of an epoch is the
\* current model exactly when that epoch's validation loss is strictly
\* below every earlier one (or it is the first epoch), and an uninterrupted
\* run tests the model of the epoch with the lowest validation loss.
C1_CheckpointOnlyOnStrictImprovement ==
  /\ (pc = "flush" /\ ~exited_early) =>
       ((ckpt.state = "complete" /\ ckpt.model = model)
          <=> StrictlyBest(eval_metrics.cross_entropy))
  /\ (pc = "test" /\ ~exited_early) =>
       model = ModelAfter(FirstArgMin(eval_metrics.cross_entropy))

\* C2 (as stated): the learning rate never increases, changes only in the
\* annealing step, where it is divided by 4, and the annealing branch is
\* taken exactly when the validation loss did not strictly improve on the
\* best loss seen so far.
C2_AnnealExactlyOnNoImprovement ==
  [][ /\ RatLeq(lr', lr)
      /\ (lr' # lr => pc = "anneal" /\ RatEq(lr', RatDiv(lr, AnnealFactor)))
      /\ (pc = "decide" /\ pc' \in {"anneal", "save_open"} =>
            (pc' = "anneal" <=> ~StrictlyBest(eval_metrics.cross_entropy)))
    ]_vars

\* C3 (as stated): after an interruption during training the run never ends
\* in an error, and what it tests is the checkpoint saved so far.
C3_InterruptNeverErrors ==
  exited_early =>
    /\ pc # "error"
    /\ (pc \in {"test", "done"} => model = ckpt.model)

\* C4 (as stated): an interruption is honoured only at an epoch boundary,
\* with no window and no checkpoint write partially applied.
C4_InterruptOnlyAtEpochBoundary ==
  (exited_early /\ pc = "load") =>
    /\ Cardinality(SeriesLens) = 1
    /\ \A p, q \in ParamIds : model[p] = model[q]
    /\ ckpt.state # "partial"
    /\ Len(train_metrics.train_loss) = train_csv

\* C4 (amended): an interruption is honoured at the position where it
\* arrives, anywhere in the epoch loop; from then on nothing of the
\* training state changes (the rest of the window or checkpoint write is
\* skipped), the only later change to the model being the checkpoint reload.
C4_InterruptAbandonsTheStep ==
  [][ exited_early' =>
        /\ UNCHANGED <<train_metrics, eval_metrics, lr, best_val_loss, ckpt,
                       total_loss, batch, i, epoch, train_csv>>
        /\ (model' = model \/ (pc = "load" /\ model' = ckpt.model))
    ]_vars

\* An interruption honoured in the middle of a window: train_loss recorded,
\* perplexity not yet.
C4_Witness ==
  /\ exited_early /\ pc = "load"
  /\ Len(train_metrics.train_loss) > Len(train_metrics.perplexity)

\* C7 (as stated): after each complete epoch every training series holds
\* epoch * ((N // B) // L) rows.
C7_RowsByFloorDivision ==
  (pc = "epoch_loop" /\ ~exited_early) =>
    SeriesLens = {epoch * ((ntrain \div batch_size) \div bptt)}

\* C7 (amended): an epoch runs ceil((N // B - 1) / L) windows, one row per
\* series per window: at the start of window `batch` of an epoch and after
\* each complete epoch the row counts are exactly the windows run so far.
C7_RowsByWindowCount ==
  /\ (pc = "w_forward" /\ ~exited_early) =>
       SeriesLens = {(epoch - 1) * NumWindows(TrainRows, bptt) + batch}
  /\ (pc \in {"evaluate", "epoch_loop"} /\ ~exited_early) =>
       /\ SeriesLens = {epoch * NumWindows(TrainRows, bptt)}
       /\ (epoch > 0 => batch = NumWindows(TrainRows, bptt))

\* All epochs done with a window count that differs from (N // B) // L.
C7_Witness ==
  /\ pc = "epoch_loop" /\ epoch = epochs /\ epoch >= 2
  /\ NumWindows(TrainRows, bptt) # TrainRows \div bptt
  /\ Len(train_metrics.perplexity) = epochs * NumWindows(TrainRows, bptt)

\* C9 (as stated): a progress line is emitted exactly at positive multiples
\* of log_interval, and at each emission the accumulator holds the
\* cross-entropy of exactly the last log_interval windows.
C9_AccumulatorCoversLogInterval ==
  /\ (progress # <<>> => progress[2] > 0 /\ progress[2] % log_interval = 0)
  /\ (pc = "w_log" /\ LogCondition) =>
       total_loss = SumSeq(LastN(train_metrics.cross_entropy, log_interval))

\* ------------------------------------------------------------------------
\* Properties of batchify, get_batch, evaluate and the optimizer step
\* ------------------------------------------------------------------------
IndexStream(n) == [k \in 1 .. n |-> k]

\* C5: every get_batch call of the loop is at an offset i = 0, L, 2L, ...
\* below S - 1 and yields min(L, S - 1 - i) >= 1 input rows i .. i+len-1 and
\* as target the rows i+1 .. i+len flattened, as many elements as the input.
C5_WindowsAreShiftedSlices ==
  (dpc = "forward" /\ Len(data_source) >= 2) =>
    LET S == Len(data_source)
        n == Len(data)
    IN  /\ ei >= 0 /\ ei % bptt = 0 /\ ei < S - 1
        /\ n = Min(bptt, S - 1 - ei) /\ n >= 1
        /\ ei + 1 + n <= S
        /\ data = [k \in 1 .. n |-> data_source[ei + k]]
        /\ targets = Flatten([k \in 1 .. n |-> data_source[ei + 1 + k]])
        /\ Len(targets) = Len(Flatten(data))
        /\ Len(targets) = n * bsz

\* The final, shorter window of a stream, not the first one.
C5_Witness ==
  /\ dpc = "forward" /\ ei > 0 /\ Len(data) < bptt /\ bsz > 1

\* C6: the grid has N // B rows of B columns, entry (r, c) is stream token
\* c * (N // B) + r (0-based), every index below B * (N // B) is placed
\* exactly once and no index from B * (N // B) on is placed.
C6_BatchifyLayout ==
  (dpc = "eval_init") =>
    LET N == Len(stream)
        nb == N \div bsz
        idx == batchify(IndexStream(N), bsz)
    IN  /\ Len(data_source) = nb
        /\ \A r \in 1 .. nb :
             /\ Len(data_source[r]) = bsz
             /\ \A c \in 1 .. bsz :
                  /\ data_source[r][c] = stream[(c - 1) * nb + (r - 1) + 1]
                  /\ idx[r][c] = (c - 1) * nb + (r - 1) + 1
        /\ \A k \in 1 .. N :
             Cardinality({rc \in (1 .. nb) \X (1 .. bsz) :
                            idx[rc[1]][rc[2]] = k})
               = IF k <= bsz * nb THEN 1 ELSE 0

\* A stream with a remainder, batchified into several rows and columns.
C6_Witness ==
  /\ dpc = "eval_init" /\ bsz > 1 /\ Len(stream) % bsz # 0
  /\ Len(data_source) >= 2

\* C8 (as stated): the returned value is a weighted average whose weights
\* add up to the divisor: when every window has the same cross-entropy c,
\* evaluate returns c.
C8_ConstantLossEvaluatesToItself ==
  (dpc = "returned" /\ \A j, k \in DOMAIN eval_ces : eval_ces[j] = eval_ces[k])
    => eval_result[1] = eval_ces[1] * eval_result[2]

\* C10 (as stated): the optimizer step raises no error, updates every
\* trainable parameter that has a gradient to param - lr * grad and leaves
\* every parameter without a gradient unchanged.
C10_ParametersWithoutGradAreSkipped ==
  /\ opc # "error"
  /\ opc = "done" =>
       \A k \in ParamIds :
         params[k].data =
           IF params[k].requires_grad /\ params[k].grad # <<>>
             THEN RatSubScaled(InitialData, lr, params[k].grad[1])
             ELSE InitialData

====
